---- MODULE Spec2Model ----
(***************************************************************************)
(* Model of kk_processor: the paragraph splitter, the streaming           *)
(* translation engine with its non-streaming fallback, the batch and      *)
(* large-document drivers, the length estimator (document_processor.py),  *)
(* and the prompt template store with its formatting (prompts_manager.py).*)
(*                                                                         *)
(* Texts are sequences of one-character strings, so that len(), strip(),  *)
(* re.split and re.sub are computed character by character.               *)
(***************************************************************************)
EXTENDS Integers, Sequences, FiniteSets, TLC

VARIABLES split, fmt, prompts, backing, call, job, store, est, twin, summary, clean

vars == <<split, fmt, prompts, backing, call, job, store, est, twin, summary, clean>>

(***************************************************************************)
(* Bounds                                                                  *)
(***************************************************************************)
MaxTextLen == 6

MaxChunkSize == 3

MaxTemplateLen == 4

MaxLines == 3

MaxBatch == 2

MaxShortLen == 3

MaxRepeat == 90

MaxOps == 3

\* Length of the longest fragment a stream delivers in one frame
MaxFragmentLen == 101

\* Largest word limit asked of extract_summary
MaxWords == 2
\* Longest result string handed to _clean_translation_result on its own
MaxResultLen == 5

(***************************************************************************)
(* Generic helpers on character sequences                                  *)
(***************************************************************************)
SeqsUpTo(S, n) == UNION {[1..k -> S] : k \in 0..n}

MaxOf(S) == CHOOSE m \in S : \A x \in S : x <= m

\* Python's \s and str.strip() whitespace, restricted to the alphabet used
IsSpace(c) == c \in {" ", "\n"}

RECURSIVE LStrip(_)
LStrip(s) ==
    IF s # <<>> /\ IsSpace(Head(s)) THEN LStrip(Tail(s)) ELSE s

RECURSIVE RStrip(_)
RStrip(s) ==
    IF s # <<>> /\ IsSpace(s[Len(s)]) THEN RStrip(SubSeq(s, 1, Len(s) - 1)) ELSE s

Strip(s) == RStrip(LStrip(s))

RECURSIVE JoinWith(_, _)
JoinWith(ss, sep) ==
    IF ss = <<>> THEN <<>>
    ELSE IF Len(ss) = 1 THEN ss[1]
    ELSE ss[1] \o sep \o JoinWith(Tail(ss), sep)

HasPrefix(s, p) == Len(s) >= Len(p) /\ SubSeq(s, 1, Len(p)) = p

Contains(s, t) == \E i \in 1..(Len(s) - Len(t) + 1) : SubSeq(s, i, i + Len(t) - 1) = t

(***************************************************************************)
(* ChunkSplitter: DocumentProcessor._split_text_by_paragraphs              *)
(***************************************************************************)
TextAlphabet == {"a", " ", "\n"}

ParagraphSep == <<"\n", "\n">>

\* End of the match of \n\s*\n starting at position i (0: no match).  \s* is
\* greedy, so the match ends at the last newline of the whitespace run.
MatchEnd(s, i) ==
    LET ends == {j \in (i + 1)..Len(s) :
                    /\ s[j] = "\n"
                    /\ \A k \in (i + 1)..(j - 1) : IsSpace(s[k])}
    IN  IF s[i] = "\n" /\ ends # {} THEN MaxOf(ends) ELSE 0

RECURSIVE SplitFrom(_, _, _)
SplitFrom(s, start, i) ==
    IF i > Len(s) THEN <<SubSeq(s, start, Len(s))>>
    ELSE LET e == MatchEnd(s, i)
         IN  IF e > 0
             THEN <<SubSeq(s, start, i - 1)>> \o SplitFrom(s, e + 1, e + 1)
             ELSE SplitFrom(s, start, i + 1)

\* re.split(r'\n\s*\n', text)
ReSplitParagraphs(s) == SplitFrom(s, 1, 1)

\* The closing of the current chunk when the next paragraph does not fit
SplitOverflowDropping(st, paragraph) ==
    [chunks |-> st.chunks, current_chunk |-> paragraph]

SplitOverflow(st, paragraph) ==
    [chunks        |-> IF st.current_chunk # <<>>
                       THEN Append(st.chunks, st.current_chunk)
                       ELSE st.chunks,
     current_chunk |-> paragraph]

\* One iteration of the loop over the paragraphs
SplitStep(st, paragraph, max_chunk_size) ==
    IF Len(st.current_chunk) + Len(paragraph) <= max_chunk_size
    THEN [chunks        |-> st.chunks,
          current_chunk |-> IF st.current_chunk # <<>>
                            THEN st.current_chunk \o ParagraphSep \o paragraph
                            ELSE paragraph]
    ELSE SplitOverflow(st, paragraph)

RECURSIVE SplitLoop(_, _, _)
SplitLoop(st, paragraphs, max_chunk_size) ==
    IF paragraphs = <<>> THEN st
    ELSE SplitLoop(SplitStep(st, Head(paragraphs), max_chunk_size),
                   Tail(paragraphs), max_chunk_size)

SplitTextByParagraphsKeepingLast(text, max_chunk_size) ==
    LET st == SplitLoop([chunks |-> <<>>, current_chunk |-> <<>>],
                        ReSplitParagraphs(text), max_chunk_size)
    IN  Append(st.chunks, st.current_chunk)

SplitTextByParagraphs(text, max_chunk_size) ==
    LET st == SplitLoop([chunks |-> <<>>, current_chunk |-> <<>>],
                        ReSplitParagraphs(text), max_chunk_size)
    IN  IF st.current_chunk # <<>>
        THEN Append(st.chunks, st.current_chunk)
        ELSE st.chunks

SplitIdle == [pc |-> "idle", text |-> <<>>, max_chunk_size |-> 1, chunks |-> <<>>]

(***************************************************************************)
(* TemplateStore formatting: PromptsManager.get_template_with_params       *)
(***************************************************************************)
TemplateAlphabet == {"{", "}", "a", "b", " "}

\* \w restricted to the alphabet used
IsWord(c) == c \in {"a", "b"}

ParamNames == {<<"a">>, <<"b">>}

ParamValues == {<<"v">>, <<"{", "a", "}">>}

ParamMaps == UNION {[K -> ParamValues] : K \in SUBSET ParamNames}

\* End of the match of \{(\w+)\} starting at position i (0: no match)
PlaceholderEnd(t, i) ==
    LET stops == {j \in (i + 1)..Len(t) : ~IsWord(t[j])}
        j == IF stops = {} THEN Len(t) + 1
             ELSE CHOOSE m \in stops : \A x \in stops : m <= x
    IN  IF t[i] = "{" /\ j > i + 1 /\ j <= Len(t) /\ t[j] = "}" THEN j ELSE 0

RECURSIVE FindParamsFrom(_, _)
FindParamsFrom(t, i) ==
    IF i > Len(t) THEN <<>>
    ELSE LET e == PlaceholderEnd(t, i)
         IN  IF e > 0
             THEN <<SubSeq(t, i + 1, e - 1)>> \o FindParamsFrom(t, e + 1)
             ELSE FindParamsFrom(t, i + 1)

\* re.findall(r'\{(\w+)\}', template)
ExtractTemplateParams(template) == FindParamsFrom(template, 1)

FormatOk(out) == [ok |-> TRUE, out |-> out, err |-> "none"]

FormatErr(e) == [ok |-> FALSE, out |-> <<>>, err |-> e]

\* The replacement field that opens at position i ("{" not doubled): the
\* field name runs to the next brace; "{" inside it and a missing "}" are
\* ValueErrors, an empty name is positional (IndexError, no positional
\* arguments are passed), any other name is looked up in the keywords.
RECURSIVE FormatFrom(_, _, _, _)
FormatField(t, i, out, params) ==
    LET braces == {j \in (i + 1)..Len(t) : t[j] \in {"{", "}"}}
        j == CHOOSE m \in braces : \A x \in braces : m <= x
        name == SubSeq(t, i + 1, j - 1)
    IN  IF braces = {} THEN FormatErr("ValueError")
        ELSE IF t[j] = "{" THEN FormatErr("ValueError")
        ELSE IF name = <<>> THEN FormatErr("IndexError")
        ELSE IF name \in DOMAIN params
             THEN FormatFrom(t, j + 1, out \o params[name], params)
             ELSE FormatErr("KeyError")

\* str.format(**params), scanning the template from position i
FormatFrom(t, i, out, params) ==
    IF i > Len(t) THEN FormatOk(out)
    ELSE IF t[i] \notin {"{", "}"} THEN FormatFrom(t, i + 1, Append(out, t[i]), params)
    ELSE IF t[i] = "}" /\ (i = Len(t) \/ t[i + 1] # "}") THEN FormatErr("ValueError")
    ELSE IF i = Len(t) THEN FormatErr("ValueError")
    ELSE IF t[i + 1] = t[i] THEN FormatFrom(t, i + 2, Append(out, t[i]), params)
    ELSE FormatField(t, i, out, params)

StrFormat(template, params) == FormatFrom(template, 1, <<>>, params)

\* get_template_with_params once get_template has returned the template:
\* a KeyError of format is re-raised as the "missing parameter" ValueError,
\* every other exception of format propagates as it is.
FormatWithParams(template, params) ==
    LET r == StrFormat(template, params)
    IN  IF r.err = "KeyError" THEN FormatErr("MissingParameter") ELSE r

(***************************************************************************)
(* TemplateStore state: PromptsManager in lazy mode, as DocumentProcessor  *)
(* constructs it                                                           *)
(***************************************************************************)
TemplateNames == {"translation_prompt", "translation_system_prompt", "summary_prompt", "system_prompt"}

\* The keyword name `text` of get_template_with_params("translation_prompt", text=text)
TextParam == <<"t", "e", "x", "t">>

EmptyStore ==
    [templates |-> <<>>, template_metadata |-> <<>>, loaded_templates |-> {}, usage_stats |-> <<>>]

\* A backing entry: <name>.txt (absent, unreadable or readable with content)
\* and the optional <name>.json ("none", "ok" or "malformed")
BackingEntry(exists, readable, content, meta) ==
    [exists |-> exists, readable |-> readable, content |-> content, meta |-> meta]

StoreResult(p, exc, value) == [prompts |-> p, exc |-> exc, value |-> value]

LoadSingleTemplateMarkingFirst(p, bk, name) ==
    LET e == bk[name]
        p0 == [p EXCEPT !.loaded_templates = p.loaded_templates \cup {name}]
        p1 == [p0 EXCEPT !.templates = (name :> Strip(e.content)) @@ p0.templates]
        p2 == IF e.meta = "ok"
              THEN [p1 EXCEPT !.template_metadata = (name :> "ok") @@ p1.template_metadata]
              ELSE p1
    IN  IF ~e.exists THEN StoreResult(p, "FileNotFoundError", <<>>)
        ELSE IF ~e.readable THEN StoreResult(p0, "ValueError", <<>>)
        ELSE IF e.meta = "malformed" THEN StoreResult(p1, "ValueError", <<>>)
        ELSE StoreResult(p2, "none", <<>>)

\* _load_single_template: the content is stored in self.templates before
\* the metadata file is read, and the name joins loaded_templates last
LoadSingleTemplate(p, bk, name) ==
    LET e == bk[name]
        p1 == [p EXCEPT !.templates = (name :> Strip(e.content)) @@ p.templates]
        p2 == IF e.meta = "ok"
              THEN [p1 EXCEPT !.template_metadata = (name :> "ok") @@ p1.template_metadata]
              ELSE p1
    IN  IF ~e.exists THEN StoreResult(p, "FileNotFoundError", <<>>)
        ELSE IF ~e.readable THEN StoreResult(p, "ValueError", <<>>)
        ELSE IF e.meta = "malformed" THEN StoreResult(p1, "ValueError", <<>>)
        ELSE StoreResult([p2 EXCEPT !.loaded_templates = p2.loaded_templates \cup {name}],
                         "none", <<>>)

UsageOf(p, name) == IF name \in DOMAIN p.usage_stats THEN p.usage_stats[name] ELSE 0

GetTemplateCountingFirst(p, bk, name, enable_lazy_load) ==
    LET c == [p EXCEPT !.usage_stats = (name :> UsageOf(p, name) + 1) @@ p.usage_stats]
        l == IF enable_lazy_load /\ name \notin DOMAIN c.templates
             THEN LoadSingleTemplate(c, bk, name)
             ELSE StoreResult(c, "none", <<>>)
        q == l.prompts
    IN  IF l.exc # "none" THEN l
        ELSE IF name \notin DOMAIN q.templates THEN StoreResult(q, "ValueError", <<>>)
        ELSE StoreResult(q, "none", q.templates[name])

\* get_template
GetTemplate(p, bk, name, enable_lazy_load) ==
    LET l == IF enable_lazy_load /\ name \notin DOMAIN p.templates
             THEN LoadSingleTemplate(p, bk, name)
             ELSE StoreResult(p, "none", <<>>)
        q == l.prompts
    IN  IF l.exc # "none" THEN l
        ELSE IF name \notin DOMAIN q.templates THEN StoreResult(q, "ValueError", <<>>)
        ELSE StoreResult([q EXCEPT !.usage_stats = (name :> UsageOf(q, name) + 1) @@ q.usage_stats],
                         "none", q.templates[name])

\* get_template_with_params
GetTemplateWithParams(p, bk, name, params, enable_lazy_load) ==
    LET g == GetTemplate(p, bk, name, enable_lazy_load)
        f == FormatWithParams(g.value, params)
    IN  IF g.exc # "none" THEN g
        ELSE StoreResult(g.prompts, f.err, f.out)

\* DocumentProcessor._preload_translation_prompts: the four get_template
\* calls run in this order inside one try, the first exception ends them
PreloadOrder == <<"translation_prompt", "translation_system_prompt", "summary_prompt", "system_prompt">>

RECURSIVE PreloadFrom(_, _, _)
PreloadFrom(p, bk, i) ==
    IF i > Len(PreloadOrder) THEN p
    ELSE LET g == GetTemplate(p, bk, PreloadOrder[i], TRUE)
         IN  IF g.exc # "none" THEN g.prompts ELSE PreloadFrom(g.prompts, bk, i + 1)

\* DocumentProcessor.__init__
NewDocumentProcessorPrompts(bk) == PreloadFrom(EmptyStore, bk, 1)

(***************************************************************************)
(* TemplateStore operations: PromptsManager construction in either mode,   *)
(* reload_templates and create_template                                    *)
(***************************************************************************)
RemoveKey(f, k) ==
    IF DOMAIN f \ {k} = {} THEN <<>> ELSE [x \in DOMAIN f \ {k} |-> f[x]]

\* list_available_templates: the stems of the *.txt files
ListAvailableTemplates(bk) == {n \in DOMAIN bk : bk[n].exists}

\* The loop of _load_all_templates and of reload_templates: each name is
\* loaded inside its own try, so a failure keeps what the failed load has
\* already stored and does not stop the loop
RECURSIVE LoadEach(_, _, _)
LoadEach(p, bk, names) ==
    IF names = {} THEN p
    ELSE LET n == CHOOSE x \in names : TRUE
         IN  LoadEach(LoadSingleTemplate(p, bk, n).prompts, bk, names \ {n})

\* _load_all_templates
LoadAllTemplates(p, bk) == LoadEach(p, bk, ListAvailableTemplates(bk))

\* PromptsManager.__init__
NewPromptsManager(bk, enable_lazy_load) ==
    IF enable_lazy_load THEN EmptyStore ELSE LoadAllTemplates(EmptyStore, bk)

\* reload_templates(template_name): the deletion of the resident entry
ForgetTemplate(p, name) ==
    IF name \in DOMAIN p.templates
    THEN [p EXCEPT !.templates = RemoveKey(@, name),
                   !.template_metadata = RemoveKey(@, name),
                   !.loaded_templates = @ \ {name}]
    ELSE p

ReloadTemplateOnNextAccess(p, bk, name) ==
    IF name \in DOMAIN p.templates
    THEN ForgetTemplate(p, name)
    ELSE LoadSingleTemplate(p, bk, name).prompts

\* list_loaded_templates: list(self.templates.keys())
ListLoadedTemplates(p) == DOMAIN p.templates

\* get_usage_statistics
GetUsageStatistics(p, bk) ==
    [total_templates |-> Cardinality(ListAvailableTemplates(bk)),
     loaded_templates |-> Cardinality(p.loaded_templates),
     usage_stats |-> p.usage_stats]

\* reload_templates(template_name): the exception of the load is caught
ReloadTemplate(p, bk, name) == LoadSingleTemplate(ForgetTemplate(p, name), bk, name).prompts

\* templates.clear(), template_metadata.clear(), loaded_templates.clear()
ClearTemplates(p) ==
    [p EXCEPT !.templates = <<>>, !.template_metadata = <<>>, !.loaded_templates = {}]

\* reload_templates()
ReloadAllTemplates(p, bk, enable_lazy_load) ==
    IF enable_lazy_load
    THEN LoadEach(ClearTemplates(p), bk, DOMAIN p.templates)
    ELSE LoadAllTemplates(ClearTemplates(p), bk)

WriteEntryAppending(bk, name, content, metadata) ==
    [bk EXCEPT ![name] = BackingEntry(TRUE, TRUE, bk[name].content \o content,
                                      IF metadata THEN "ok" ELSE bk[name].meta)]

\* The files create_template writes: <name>.txt always, <name>.json only
\* when metadata is given (an existing <name>.json is otherwise left alone)
WriteEntry(bk, name, content, metadata) ==
    [bk EXCEPT ![name] = BackingEntry(TRUE, TRUE, content,
                                      IF metadata THEN "ok" ELSE bk[name].meta)]

\* create_template: returns False when the eager load raises
CreateTemplate(p, bk, name, content, metadata, enable_lazy_load) ==
    LET bk1 == WriteEntry(bk, name, content, metadata)
        l   == IF enable_lazy_load
               THEN StoreResult(p, "none", <<>>)
               ELSE LoadSingleTemplate(p, bk1, name)
    IN  [prompts |-> l.prompts, backing |-> bk1, value |-> (l.exc = "none")]

StoreNames == {"t1", "t2"}

StoreContents == {<<"x">>, <<" ", "y">>, <<"{", "a", "}">>}

\* The prompts directory entries a store is constructed on
StoreEntries ==
    {BackingEntry(FALSE, FALSE, <<>>, "none"),
     BackingEntry(TRUE, FALSE, <<>>, "none"),
     BackingEntry(TRUE, TRUE, <<"x">>, "none"),
     BackingEntry(TRUE, TRUE, <<" ", "y">>, "ok"),
     BackingEntry(TRUE, TRUE, <<"{", "a", "}">>, "none"),
     BackingEntry(TRUE, TRUE, <<"x">>, "malformed")}

NoParams == [k \in {} |-> <<>>]

StoreParamMaps == {NoParams, [k \in {<<"a">>} |-> <<"v">>]}

\* The operation a store has just performed
StoreOp(op, name, params, content, metadata) ==
    [op |-> op, name |-> name, params |-> params, content |-> content, metadata |-> metadata]

NoOp == StoreOp("none", "none", NoParams, <<>>, FALSE)

\* enable_lazy_load, the last two operations, the store and the directory
\* before the last operation, what the last operation raised or returned,
\* and what the operation before it raised or, a create, returned
StoreIdle ==
    [enable_lazy_load |-> TRUE, ops |-> 0, last |-> NoOp, prev |-> NoOp,
     before |-> EmptyStore, before_backing |-> <<>>, before_prev |-> EmptyStore,
     exc |-> "none", value |-> <<>>, created |-> FALSE, prev_created |-> FALSE,
     prev_exc |-> "none"]

AfterOp(op, p, bk, exc, value, created) ==
    [store EXCEPT !.ops = @ + 1, !.last = op, !.prev = store.last,
                  !.before = p, !.before_backing = bk, !.before_prev = store.before,
                  !.exc = exc, !.value = value, !.created = created,
                  !.prev_created = store.created, !.prev_exc = store.exc]

(***************************************************************************)
(* LengthEstimator: _estimate_translated_length.  The ratio is a Python     *)
(* float, an IEEE-754 double; every double the code can hold lies in        *)
(* [0.25, 1) and is written as the integer hi*2^36 + mid*2^18 + lo counted  *)
(* in units of 2^-54, so that float arithmetic is computed bit-exactly.     *)
(***************************************************************************)
Limb == 262144

Double(hi, mid, lo) == [hi |-> hi, mid |-> mid, lo |-> lo]

\* The doubles written 0.3, 0.4, 0.5, 0.6, 0.6000000000000001, 0.7 and 0.8
Dbl03 == Double(78643, 52428, 209715)

Dbl04 == Double(104857, 157286, 104858)

Dbl05 == Double(131072, 0, 0)

Dbl06 == Double(157286, 104857, 157286)

Dbl06u == Double(157286, 104857, 157288)

Dbl07 == Double(183500, 209715, 52428)

Dbl08 == Double(209715, 52428, 209716)

DoubleLess(x, y) ==
    \/ x.hi < y.hi
    \/ x.hi = y.hi /\ x.mid < y.mid
    \/ x.hi = y.hi /\ x.mid = y.mid /\ x.lo < y.lo

\* ratio -= 0.1, ratio += 0.1, ratio += 0.2: the round-to-nearest results
\* on the doubles the ratio can hold at that point
FloatSub01(r) == IF r = Dbl05 THEN Dbl04 ELSE r

FloatAdd01(r) == IF r = Dbl05 THEN Dbl06 ELSE IF r = Dbl04 THEN Dbl05 ELSE r

FloatAdd02(r) ==
    IF r = Dbl04 THEN Dbl06u
    ELSE IF r = Dbl05 THEN Dbl07
    ELSE IF r = Dbl06 THEN Dbl08
    ELSE r

\* max(0.3, min(ratio, 0.8))
ClampRatio(r) ==
    LET m == IF DoubleLess(Dbl08, r) THEN Dbl08 ELSE r
    IN  IF DoubleLess(m, Dbl03) THEN Dbl03 ELSE m

RECURSIVE FloorLog2(_)
FloorLog2(q) == IF q <= 1 THEN 0 ELSE 1 + FloorLog2(q \div 2)

RECURSIVE Pow2(_)
Pow2(e) == IF e = 0 THEN 1 ELSE 2 * Pow2(e - 1)

\* int(original_length * ratio) for 0 <= n < 4096: the exact product
\* n * ratio is q + (p2*2^36 + p1*2^18 + p0) / 2^54; the float product is
\* that value rounded to 53 significant bits (ties to even), which reaches
\* q + 1 exactly when the fraction is within half an ulp below 1; int()
\* truncates the float product.
IntOfProduct(n, r) ==
    LET t0 == n * r.lo
        p0 == t0 % Limb
        t1 == n * r.mid + (t0 \div Limb)
        p1 == t1 % Limb
        t2 == n * r.hi + (t1 \div Limb)
        p2 == t2 % Limb
        q  == t2 \div Limb
    IN  IF q = 0 THEN 0
        ELSE IF /\ p2 = Limb - 1
                /\ p1 = Limb - 1
                /\ Limb - p0 <= Pow2(FloorLog2(q) + 1)
             THEN q + 1
             ELSE q

IsLetter(c) == c \in {"a", "b"}

IsDigitOrSymbol(c) == c \in {"1", "@"}

IsWordChar(c) == IsLetter(c) \/ c \in {"1", "_"}

\* The matches of \b[a-zA-Z]+\b: the maximal runs of word characters that
\* are made of letters only, as pairs <<first, last>>
LetterWords(text) ==
    {w \in (1..Len(text)) \X (1..Len(text)) :
        /\ w[1] <= w[2]
        /\ (w[1] = 1 \/ ~IsWordChar(text[w[1] - 1]))
        /\ (w[2] = Len(text) \/ ~IsWordChar(text[w[2] + 1]))
        /\ \A k \in w[1]..w[2] : IsLetter(text[k])}

\* word_density > 0.15, avg_word_len > 7 and digit_symbol_ratio > 0.2 compare
\* the correctly rounded quotient of two small integers with a literal, which
\* decides as the exact comparison of the integers does
AdjustRatioByTextFeatures(text, base_ratio) ==
    LET words == LetterWords(text)
        total_chars == Len(text)
        letters == Cardinality({k \in 1..Len(text) :
                                   \E w \in words : w[1] <= k /\ k <= w[2]})
        symbols == Cardinality({k \in 1..Len(text) : IsDigitOrSymbol(text[k])})
        r1 == IF words # {} /\ total_chars > 0 /\ 100 * Cardinality(words) > 15 * total_chars
              THEN FloatSub01(base_ratio) ELSE base_ratio
        r2 == IF words # {} /\ total_chars > 0 /\ letters > 7 * Cardinality(words)
              THEN FloatAdd01(r1) ELSE r1
        r3 == IF total_chars > 0 /\ 10 * symbols > 2 * total_chars THEN FloatAdd02(r2) ELSE r2
    IN  ClampRatio(r3)

EstimateTranslatedLength(english_text) ==
    IF Strip(english_text) = <<>> THEN 0
    ELSE LET scaled == IntOfProduct(Len(english_text),
                                    AdjustRatioByTextFeatures(english_text, Dbl05))
         IN  IF scaled > 100 THEN scaled ELSE 100

RECURSIVE Repeat(_, _)
Repeat(u, k) == IF k = 0 THEN <<>> ELSE u \o Repeat(u, k - 1)

EstAlphabet == {"a", "1", "@", " "}

\* The texts the estimator is run on: every short text, and two runs of one
\* character each, of length 1 or MaxRepeat
EstTexts ==
    SeqsUpTo(EstAlphabet, MaxShortLen)
        \cup {Repeat(<<c>>, k) \o Repeat(<<d>>, m) :
                 c \in EstAlphabet, d \in EstAlphabet,
                 k \in {1, MaxRepeat}, m \in {1, MaxRepeat}}

EstIdle == [pc |-> "idle", text |-> <<>>, ratio |-> Dbl05, result |-> 0]

(***************************************************************************)
(* Result cleaning and the failure marker.  The Chinese characters of the  *)
(* source are written by name: fan yi = 翻译 (U+7FFB U+8BD1), yi3 xia shi = *)
(* 以下是, wen = 文, shi1 bai = 失败, fullcolon = the full-width colon.       *)
(***************************************************************************)
FillerPhrases == << <<"fan", "yi">>, <<"yi3", "xia", "shi", "fan", "yi">>, <<"yi", "wen">> >>

\* re.sub(r'^<phrase>[：:]?\s*', '', s)
ReSubLeading(s, phrase) ==
    IF HasPrefix(s, phrase)
    THEN LET r == SubSeq(s, Len(phrase) + 1, Len(s))
         IN  LStrip(IF r # <<>> /\ Head(r) \in {"fullcolon", ":"} THEN Tail(r) ELSE r)
    ELSE s

RECURSIVE CleanFrom(_, _)
CleanFrom(text, i) ==
    IF i > Len(FillerPhrases) THEN text
    ELSE CleanFrom(ReSubLeading(Strip(text), FillerPhrases[i]), i + 1)

\* _clean_translation_result
CleanTranslationResult(text) == Strip(CleanFrom(text, 1))

\* A call of _clean_translation_result on its own: the argument and the
\* returned string
CleanIdle == [pc |-> "idle", text |-> <<>>, result |-> <<>>]

\* f"[翻译失败] {text}"
FailureMarker(text) == <<"[", "fan", "yi", "shi1", "bai", "]", " ">> \o text

(***************************************************************************)
(* StreamingTranslationEngine: translate_text, _translate_with_streaming_api *)
(* and _fallback_translate_text                                            *)
(***************************************************************************)
\* A streamed line, by what the loop's tests decide about it:
\*   blank               empty, or empty after strip()
\*   noprefix            does not start with 'data: '
\*   done                'data: [DONE]'
\*   invalid_json        'data: ' followed by text json.loads rejects
\*   payload_not_object  'data: 5'                  ('choices' in 5)
\*   choice_not_object   'data: {"choices": [5]}'   ((5).get)
\*   no_choices          'data: {}' or 'data: {"choices": []}'
\*   finish              choices[0].finish_reason is not null
\*   content             choices[0].delta.content = content, finish_reason null
Line(kind, content) == [kind |-> kind, content |-> content]

\* A fragment longer than the smallest estimate (100)
LongFragment == Repeat(<<"H">>, MaxFragmentLen)

Fragments == {<<"H", "e">>, <<" ">>, <<"yi", "wen", "fullcolon">>, LongFragment}

LineSet ==
    {Line(k, <<>>) : k \in {"blank", "noprefix", "done", "invalid_json", "payload_not_object",
                            "choice_not_object", "no_choices", "finish"}}
        \cup {Line("content", f) : f \in Fragments}

OpenFailures == {"ConnectionError", "HTTPError", "Timeout"}

ReadFailures == {"ChunkedEncodingError"}

TransportFailures == OpenFailures \cup ReadFailures

\* What the non-streaming request can come back with
FallbackOutcomes ==
    {[kind |-> "ok", content |-> c] : c \in {<<"H", "i">>, <<"fan", "yi", ":">>}}
        \cup {[kind |-> k, content |-> <<>>] : k \in {"transport_error", "malformed"}}

NoBar == [present |-> FALSE, n |-> 0, total |-> 0, closed |-> FALSE]

Request(stream, system_prompt, prompt) ==
    [stream |-> stream, system_prompt |-> system_prompt, prompt |-> prompt]

NewCall(text, show_progress) ==
    [pc |-> "idle", text |-> text, show_progress |-> show_progress,
     prompt |-> <<>>, system_prompt |-> <<>>,
     stream |-> <<>>, pos |-> 0,
     translated_parts |-> <<>>, received_chars |-> 0, progress_bar |-> NoBar,
     requests |-> <<>>, fallback_calls |-> 0, exc |-> "none",
     loop_ended |-> FALSE, fallback_failed |-> FALSE,
     result |-> <<>>]

\* ''.join(translated_parts)
JoinParts(parts) == JoinWith(parts, <<>>)

BarAtFragmentFixedTotal(bar, received_chars, content) ==
    IF bar.present THEN [bar EXCEPT !.n = bar.n + Len(content)] ELSE bar

\* progress_bar.total / progress_bar.update at a fragment
BarAtFragment(bar, received_chars, content) ==
    IF bar.present
    THEN [bar EXCEPT !.total = IF received_chars > bar.total THEN received_chars + 100
                                ELSE bar.total,
                     !.n = bar.n + Len(content)]
    ELSE bar

LineOutcome(ctl, c, exc) == [ctl |-> ctl, call |-> c, exc |-> exc]

\* A data frame that is not the expected structure: the inner
\* `except (json.JSONDecodeError, KeyError): continue` catches the decode
\* error only, a TypeError or AttributeError leaves the loop
UndecodableFrame(c, line) ==
    IF line.kind = "invalid_json" THEN LineOutcome("continue", c, "none")
    ELSE IF line.kind = "payload_not_object" THEN LineOutcome("raise", c, "TypeError")
    ELSE LineOutcome("raise", c, "AttributeError")

AppendFragmentUnderBar(c, content) ==
    [c EXCEPT !.translated_parts = IF c.progress_bar.present
                                   THEN Append(c.translated_parts, content)
                                   ELSE c.translated_parts,
              !.received_chars = c.received_chars + Len(content),
              !.progress_bar = BarAtFragment(c.progress_bar, c.received_chars + Len(content),
                                             content)]

\* The appending of a delta-content fragment
AppendFragment(c, content) ==
    [c EXCEPT !.translated_parts = Append(c.translated_parts, content),
              !.received_chars = c.received_chars + Len(content),
              !.progress_bar = BarAtFragment(c.progress_bar, c.received_chars + Len(content),
                                             content)]

\* The body of `for line in response.iter_lines()` for one line
ProcessLine(c, line) ==
    IF line.kind = "blank" THEN LineOutcome("continue", c, "none")
    ELSE IF line.kind = "done" THEN LineOutcome("break", c, "none")
    ELSE IF line.kind = "noprefix" THEN LineOutcome("continue", c, "none")
    ELSE IF line.kind \in {"invalid_json", "payload_not_object", "choice_not_object"}
         THEN UndecodableFrame(c, line)
    ELSE IF line.kind = "no_choices" THEN LineOutcome("continue", c, "none")
    ELSE IF line.kind = "finish" THEN LineOutcome("break", c, "none")
    ELSE IF line.content # <<>> THEN LineOutcome("continue", AppendFragment(c, line.content), "none")
    ELSE LineOutcome("continue", c, "none")

ResultIsEmptyUnstripped(translated_text) == translated_text = <<>>

\* `if not translated_text.strip()`
ResultIsEmpty(translated_text) == Strip(translated_text) = <<>>

\* The code after the loop: close the bar, join the parts, then either the
\* empty-result branch or the cleaned result
AfterLoop(c) ==
    LET translated_text == JoinParts(c.translated_parts)
        closed == [c EXCEPT !.loop_ended = TRUE,
                            !.progress_bar = IF c.progress_bar.present
                                             THEN [c.progress_bar EXCEPT !.closed = TRUE]
                                             ELSE c.progress_bar]
    IN  IF ResultIsEmpty(translated_text)
        THEN [closed EXCEPT !.pc = "empty"]
        ELSE [closed EXCEPT !.pc = "completed",
                            !.result = CleanTranslationResult(translated_text)]

StreamingFailedRetrying(c, exc) == [c EXCEPT !.pc = "requesting", !.exc = exc]

\* `except Exception` of _translate_with_streaming_api
StreamingFailed(c, exc) ==
    [c EXCEPT !.pc = "error", !.exc = exc,
              !.progress_bar = IF c.progress_bar.present
                               THEN [c.progress_bar EXCEPT !.closed = TRUE]
                               ELSE c.progress_bar]

FallbackFailureEmpty(text) == <<>>

\* The return value of _fallback_translate_text when its request fails
FallbackFailureResult(text) == FailureMarker(text)

FmtIdle == [pc |-> "idle", template |-> <<>>, params |-> <<>>, result |-> FormatOk(<<>>)]

\* Backing stores the engine is run against
PromptTemplate == <<"T", ":", "{", "t", "e", "x", "t", "}">>

BackingGood ==
    [n \in TemplateNames |->
        BackingEntry(TRUE, TRUE,
                     IF n = "translation_prompt" THEN PromptTemplate ELSE <<"S">>, "none")]

BackingNoPrompt ==
    [BackingGood EXCEPT !["translation_prompt"] = BackingEntry(FALSE, FALSE, <<>>, "none")]

BackingExtraParam ==
    [BackingGood EXCEPT !["translation_prompt"] =
        BackingEntry(TRUE, TRUE, PromptTemplate \o <<"{", "l", "}">>, "none")]

BackingNoSystemPrompt ==
    [BackingGood EXCEPT !["translation_system_prompt"] = BackingEntry(FALSE, FALSE, <<>>, "none")]

BackingUnreadablePrompt ==
    [BackingGood EXCEPT !["translation_prompt"] = BackingEntry(TRUE, FALSE, <<>>, "none")]

BackingMalformedMetadata ==
    [BackingGood EXCEPT !["translation_prompt"] =
        BackingEntry(TRUE, TRUE, PromptTemplate, "malformed")]

EngineBackings ==
    {BackingGood, BackingNoPrompt, BackingExtraParam, BackingNoSystemPrompt,
     BackingUnreadablePrompt, BackingMalformedMetadata}

EngineTexts == {<<"a">>, <<" ">>}

\* The driver on top of the translate calls: kind is "single" (one
\* translate_text call), "batch" (batch_translate) or "large"
\* (translate_large_document)
NewJob(kind, show_progress, texts, doc, chunk_size) ==
    [kind |-> kind, pc |-> "start", show_progress |-> show_progress,
     texts |-> texts, doc |-> doc, chunk_size |-> chunk_size,
     i |-> 0, results |-> <<>>, sleeps |-> 0, calls |-> <<>>, result |-> <<>>]

JobIdle == [NewJob("none", FALSE, <<>>, <<>>, 1) EXCEPT !.pc = "none"]

JobSingle == [NewJob("single", FALSE, <<>>, <<>>, 1) EXCEPT !.pc = "none"]

NoCall == [NewCall(<<>>, FALSE) EXCEPT !.pc = "none"]

\* The streams the server sends while a batch or a document is translated
JobStreams ==
    {<<Line("content", <<"H", "e">>), Line("done", <<>>)>>,
     <<Line("content", <<" ">>)>>,
     <<Line("payload_not_object", <<>>)>>}

\* The streams the server may send in one call
StreamScripts ==
    IF job.kind = "single" THEN SeqsUpTo(LineSet, MaxLines)
    ELSE IF job.kind = "none" THEN SeqsUpTo(LineSet, MaxLines - 1)
    ELSE JobStreams

\* What the server and the network do during one call: the outcome of
\* opening the stream, the lines of the stream, the position at which reading
\* it fails (NoReadFailure: nowhere), and the outcome of the fallback request
NoReadFailure == 0 - 1

Env(open, script, fail_at, fallback) ==
    [open |-> open, script |-> script, fail_at |-> fail_at, fallback |-> fallback]

\* A second translate_text call, on its own processor, given the same
\* environment as the first
TwinIdle ==
    [env |-> Env("ok", <<>>, NoReadFailure, [kind |-> "malformed", content |-> <<>>]),
     call |-> NoCall, prompts |-> EmptyStore]

\* An extract_summary (or generate_heading) call: failed records that the
\* except clause ran, raised that an exception left the call
NewSummary(op, text, max_words) ==
    [op |-> op, pc |-> "idle", text |-> text, max_words |-> max_words,
     requests |-> 0, failed |-> FALSE, raised |-> FALSE, result |-> <<>>]

SummaryIdle == [NewSummary("none", <<>>, 0) EXCEPT !.pc = "none"]

EngineIdle ==
    /\ prompts = EmptyStore
    /\ backing = BackingGood
    /\ call = NoCall
    /\ job = JobIdle
    /\ store = StoreIdle
    /\ est = EstIdle
    /\ summary = SummaryIdle
    /\ clean = CleanIdle
    /\ twin = TwinIdle

TemplateFailureProceeding(c) == [c EXCEPT !.pc = "requesting"]

\* The except clause of translate_text: `return f"[翻译失败] {text}"`
TemplateFailure(c) ==
    [c EXCEPT !.pc = "done", !.exc = "TemplateError", !.result = FailureMarker(c.text)]

\* translate_text up to the call of _translate_with_streaming_api, and the
\* start of the latter (estimate, progress bar): the call and the store after
\* it, for call c on store p over the prompts directory b
TranslateTextResult(c, p, b) ==
    LET r1 == GetTemplateWithParams(p, b, "translation_prompt", (TextParam :> c.text), TRUE)
        r2 == GetTemplate(r1.prompts, b, "translation_system_prompt", TRUE)
    IN  IF Strip(c.text) = <<>>
        THEN [call |-> [c EXCEPT !.pc = "done", !.result = <<>>], prompts |-> p]
        ELSE IF r1.exc # "none"
        THEN [call |-> TemplateFailure(c), prompts |-> r1.prompts]
        ELSE IF r2.exc # "none"
        THEN [call |-> TemplateFailure(c), prompts |-> r2.prompts]
        ELSE [call |-> [c EXCEPT
                          !.pc = "requesting",
                          !.prompt = r1.value,
                          !.system_prompt = r2.value,
                          !.progress_bar =
                              IF c.show_progress
                              THEN [present |-> TRUE, n |-> 0,
                                    total |-> EstimateTranslatedLength(c.text),
                                    closed |-> FALSE]
                              ELSE NoBar],
              prompts |-> r2.prompts]

TranslateText ==
    /\ call.pc = "idle"
    /\ LET r == TranslateTextResult(call, prompts, backing)
       IN  /\ call' = r.call
           /\ prompts' = r.prompts
    /\ UNCHANGED <<split, fmt, backing, job, store, est, twin, summary, clean>>

\* The streaming request of call c: it fails with `outcome`, or it is
\* answered by the stream `script`
StreamOpened(c, outcome, script) ==
    LET sent == [c EXCEPT !.requests = Append(@, Request(TRUE, c.system_prompt, c.prompt))]
    IN  IF outcome = "ok"
        THEN [sent EXCEPT !.pc = "streaming", !.stream = script, !.pos = 0]
        ELSE StreamingFailed(sent, outcome)

\* The next line of the stream of call c
StreamLineResult(c) ==
    LET o == ProcessLine([c EXCEPT !.pos = @ + 1], c.stream[c.pos + 1])
    IN  IF o.ctl = "continue" THEN o.call
        ELSE IF o.ctl = "break" THEN AfterLoop(o.call)
        ELSE StreamingFailed(o.call, o.exc)

\* The non-streaming request of call c and what it comes back with
FallbackResult(c, outcome) ==
    LET sent == [c EXCEPT !.pc = "done",
                          !.requests = Append(@, Request(FALSE, c.system_prompt, c.prompt))]
    IN  IF outcome.kind = "ok"
        THEN [sent EXCEPT !.result = CleanTranslationResult(outcome.content)]
        ELSE [sent EXCEPT !.fallback_failed = TRUE,
                          !.result = FallbackFailureResult(c.text)]

\* requests.post(..., stream=True) and raise_for_status()
StreamRequest ==
    /\ call.pc = "requesting"
    /\ \E outcome \in {"ok"} \cup OpenFailures :
          IF outcome = "ok"
          THEN \E script \in StreamScripts : call' = StreamOpened(call, outcome, script)
          ELSE call' = StreamOpened(call, outcome, <<>>)
    /\ UNCHANGED <<split, fmt, prompts, backing, job, store, est, twin, summary, clean>>

\* One line of response.iter_lines()
StreamLine ==
    /\ call.pc = "streaming"
    /\ call.pos < Len(call.stream)
    /\ call' = StreamLineResult(call)
    /\ UNCHANGED <<split, fmt, prompts, backing, job, store, est, twin, summary, clean>>

\* iter_lines() is exhausted: the server closed the stream
StreamExhausted ==
    /\ call.pc = "streaming"
    /\ call.pos = Len(call.stream)
    /\ call' = AfterLoop(call)
    /\ UNCHANGED <<split, fmt, prompts, backing, job, store, est, twin, summary, clean>>

\* iter_lines() raises: the connection breaks or times out mid-stream
StreamReadFailure ==
    /\ call.pc = "streaming"
    /\ \E e \in ReadFailures : call' = StreamingFailed(call, e)
    /\ UNCHANGED <<split, fmt, prompts, backing, job, store, est, twin, summary, clean>>

\* The statistics and `return cleaned_text`
CallCompleted(c) == [c EXCEPT !.pc = "done"]

CompleteCall ==
    /\ call.pc = "completed"
    /\ call' = CallCompleted(call)
    /\ UNCHANGED <<split, fmt, prompts, backing, job, store, est, twin, summary, clean>>

\* `return self._fallback_translate_text(text, prompt, system_prompt)`, from
\* the empty-result branch or from the except clause
FallbackEntered(c) == [c EXCEPT !.pc = "fallback", !.fallback_calls = @ + 1]

EnterFallback ==
    /\ call.pc \in {"empty", "error"}
    /\ call' = FallbackEntered(call)
    /\ UNCHANGED <<split, fmt, prompts, backing, job, store, est, twin, summary, clean>>

\* _fallback_translate_text: the non-streaming request and its outcome
FallbackRequest ==
    /\ call.pc = "fallback"
    /\ \E outcome \in FallbackOutcomes : call' = FallbackResult(call, outcome)
    /\ UNCHANGED <<split, fmt, prompts, backing, job, store, est, twin, summary, clean>>

EngineNext ==
    \/ CompleteCall
    \/ EnterFallback
    \/ FallbackRequest
    \/ StreamReadFailure
    \/ StreamExhausted
    \/ StreamRequest
    \/ StreamLine
    \/ TranslateText

CallInit ==
    /\ split = SplitIdle
    /\ fmt = FmtIdle
    /\ store = StoreIdle
    /\ est = EstIdle
    /\ summary = SummaryIdle
    /\ clean = CleanIdle
    /\ twin = TwinIdle
    /\ backing \in EngineBackings
    /\ prompts = NewDocumentProcessorPrompts(backing)
    /\ call \in {NewCall(t, sp) : t \in EngineTexts, sp \in BOOLEAN}
    /\ job = JobSingle

SpecCall == CallInit /\ [][EngineNext]_vars

\* The interpreter keeps executing the call, and every request returns or
\* raises within its timeout (timeout=120, timeout=60): some step of the
\* call is taken as long as one is possible
FairInit ==
    /\ split = SplitIdle
    /\ fmt = FmtIdle
    /\ store = StoreIdle
    /\ est = EstIdle
    /\ summary = SummaryIdle
    /\ clean = CleanIdle
    /\ twin = TwinIdle
    /\ backing \in EngineBackings
    /\ prompts = NewDocumentProcessorPrompts(backing)
    /\ call \in {NewCall(t, sp) : t \in EngineTexts, sp \in BOOLEAN}
    /\ job = JobIdle

SpecCallFair == FairInit /\ [][EngineNext]_vars /\ WF_vars(EngineNext)

\* One step of call c on store p over the prompts directory b, the server
\* and the network behaving as env says
EngineStep(c, p, b, env) ==
    IF c.pc = "idle" THEN TranslateTextResult(c, p, b)
    ELSE [prompts |-> p,
          call |->
             IF c.pc = "requesting" THEN StreamOpened(c, env.open, env.script)
             ELSE IF c.pc = "streaming"
             THEN IF c.pos = env.fail_at
                  THEN StreamingFailed(c, CHOOSE e \in ReadFailures : TRUE)
                  ELSE IF c.pos < Len(c.stream) THEN StreamLineResult(c)
                  ELSE AfterLoop(c)
             ELSE IF c.pc = "completed" THEN CallCompleted(c)
             ELSE IF c.pc \in {"empty", "error"} THEN FallbackEntered(c)
             ELSE IF c.pc = "fallback" THEN FallbackResult(c, env.fallback)
             ELSE c]

\* The streams of the two-processor runs
TwinScripts == SeqsUpTo(LineSet, MaxLines - 1)

\* An open failure leaves no stream to read; a read failure happens at a
\* position of the stream
IsTwinEnv(env) ==
    /\ env.open # "ok" => (env.script = <<>> /\ env.fail_at = NoReadFailure)
    /\ env.fail_at <= Len(env.script)

\* Two processors over the same prompts directory are given the same text:
\* the first reports progress (show_progress=True), the second does not
TwinBackings == {BackingGood, BackingNoPrompt}

TwinInit ==
    /\ split = SplitIdle
    /\ fmt = FmtIdle
    /\ store = StoreIdle
    /\ est = EstIdle
    /\ summary = SummaryIdle
    /\ clean = CleanIdle
    /\ job = JobSingle
    /\ backing \in TwinBackings
    /\ prompts = NewDocumentProcessorPrompts(backing)
    /\ \E t \in EngineTexts, o \in {"ok"} \cup OpenFailures, script \in TwinScripts,
          k \in NoReadFailure..(MaxLines - 1), f \in FallbackOutcomes :
          /\ IsTwinEnv(Env(o, script, k, f))
          /\ call = NewCall(t, TRUE)
          /\ twin = [env |-> Env(o, script, k, f), call |-> NewCall(t, FALSE),
                     prompts |-> prompts]

\* Both calls take their next step, against the same environment
TwinStep ==
    /\ call.pc # "done" \/ twin.call.pc # "done"
    /\ LET on == EngineStep(call, prompts, backing, twin.env)
           off == EngineStep(twin.call, twin.prompts, backing, twin.env)
       IN  /\ call' = on.call
           /\ prompts' = on.prompts
           /\ twin' = [twin EXCEPT !.call = off.call, !.prompts = off.prompts]
    /\ UNCHANGED <<split, fmt, backing, job, store, est, summary, clean>>

SpecTwin == TwinInit /\ [][TwinStep]_vars

(***************************************************************************)
(* Summaries: extract_summary, generate_heading, _validate_summary and     *)
(* _fallback_summary                                                       *)
(***************************************************************************)
\* str.split(): the maximal runs of non-whitespace characters
RECURSIVE SplitWords(_)
SplitWords(s) ==
    LET t == LStrip(s)
        n == IF \E i \in 1..Len(t) : IsSpace(t[i])
             THEN (CHOOSE i \in 1..Len(t) :
                      IsSpace(t[i]) /\ \A j \in 1..(i - 1) : ~IsSpace(t[j])) - 1
             ELSE Len(t)
    IN  IF t = <<>> THEN <<>>
        ELSE <<SubSeq(t, 1, n)>> \o SplitWords(SubSeq(t, n + 1, Len(t)))

\* words[:max_words]
SliceTo(words, k) ==
    IF k >= 0 THEN SubSeq(words, 1, IF k < Len(words) THEN k ELSE Len(words))
    ELSE SubSeq(words, 1, Len(words) + k)

IsQuote(c) == c \in {"\"", "'"}

\* re.sub(r'^["\']|["\']$', '', text): a quote at the start and a quote at
\* the end are removed
StripQuotes(s) ==
    LET t == IF s # <<>> /\ IsQuote(s[1]) THEN Tail(s) ELSE s
    IN  IF t # <<>> /\ IsQuote(t[Len(t)]) THEN SubSeq(t, 1, Len(t) - 1) ELSE t

\* _validate_summary
ValidateSummary(text, max_words) ==
    JoinWith(SliceTo(SplitWords(StripQuotes(Strip(text))), max_words), <<" ">>)

IsSentenceEnd(c) == c \in {".", "!", "?"}

\* re.split(r'[.!?]+', text): the pieces between the runs of terminators
RECURSIVE SplitSentences(_, _)
SplitSentences(s, piece) ==
    IF s = <<>> THEN <<piece>>
    ELSE IF IsSentenceEnd(Head(s))
    THEN IF Len(s) > 1 /\ IsSentenceEnd(s[2])
         THEN SplitSentences(Tail(s), piece)
         ELSE <<piece>> \o SplitSentences(Tail(s), <<>>)
    ELSE SplitSentences(Tail(s), Append(piece, Head(s)))

\* _fallback_summary
FallbackSummary(text, max_words) ==
    LET sentences == SplitSentences(text, <<>>)
        first_sentence == IF sentences # <<>> THEN Strip(sentences[1]) ELSE <<>>
    IN  JoinWith(SliceTo(SplitWords(first_sentence), max_words), <<" ">>)

\* str(max_words) inside the formatted prompt
DecimalOf(n) == <<(<<"0", "1", "2", "3", "4", "5", "6", "7", "8", "9">>)[n + 1]>>

MaxWordsParam == <<"m", "a", "x", "_", "w", "o", "r", "d", "s">>

ParagraphParam == <<"p", "a", "r", "a", "g", "r", "a", "p", "h">>

SummaryTemplate == <<"{">> \o MaxWordsParam \o <<"}", ":", "{">> \o ParagraphParam \o <<"}">>

BackingSummary ==
    [BackingGood EXCEPT !["summary_prompt"] = BackingEntry(TRUE, TRUE, SummaryTemplate, "none")]

BackingNoSummaryPrompt ==
    [BackingGood EXCEPT !["summary_prompt"] = BackingEntry(FALSE, FALSE, <<>>, "none")]

BackingSummaryExtraParam ==
    [BackingGood EXCEPT !["summary_prompt"] =
        BackingEntry(TRUE, TRUE, SummaryTemplate \o <<"{", "l", "}">>, "none")]

BackingNoSummarySystemPrompt ==
    [BackingSummary EXCEPT !["system_prompt"] = BackingEntry(FALSE, FALSE, <<>>, "none")]

SummaryBackings ==
    {BackingSummary, BackingNoSummaryPrompt, BackingSummaryExtraParam,
     BackingNoSummarySystemPrompt}

SummaryAlphabet == {"a", "b", " ", "."}

SummaryTexts == SeqsUpTo(SummaryAlphabet, MaxShortLen + 1)

\* What the summary request can come back with: a message content, a
\* transport error (no connection, timeout, status >= 400) or a body that is
\* not the expected structure
SummaryContents ==
    {<<"\"", "a", " ", "b", "\"">>, <<"b", " ", "a", " ", "b">>, <<" ", "'", "a">>, <<>>, <<"\n">>}

SummaryOutcomes ==
    {[kind |-> "ok", content |-> c] : c \in SummaryContents}
        \cup {[kind |-> k, content |-> <<>>] : k \in {"transport_error", "malformed"}}

SummaryFailedRaising(s, p) ==
    [summary |-> [s EXCEPT !.pc = "done", !.failed = TRUE, !.raised = TRUE], prompts |-> p]

\* `except Exception` of extract_summary
SummaryFailed(s, p) ==
    [summary |-> [s EXCEPT !.pc = "done", !.failed = TRUE,
                           !.result = FallbackSummary(s.text, s.max_words)],
     prompts |-> p]

\* extract_summary up to requests.post
ExtractSummary ==
    /\ summary.pc = "idle"
    /\ LET r1 == GetTemplateWithParams(prompts, backing, "summary_prompt",
                                       (MaxWordsParam :> DecimalOf(summary.max_words))
                                           @@ (ParagraphParam :> summary.text), TRUE)
           r2 == GetTemplate(r1.prompts, backing, "system_prompt", TRUE)
           next == IF Strip(summary.text) = <<>>
                   THEN [summary |-> [summary EXCEPT !.pc = "done", !.result = <<>>],
                         prompts |-> prompts]
                   ELSE IF r1.exc # "none" THEN SummaryFailed(summary, r1.prompts)
                   ELSE IF r2.exc # "none" THEN SummaryFailed(summary, r2.prompts)
                   ELSE [summary |-> [summary EXCEPT !.pc = "requesting"],
                         prompts |-> r2.prompts]
       IN  /\ summary' = next.summary
           /\ prompts' = next.prompts
    /\ UNCHANGED <<split, fmt, backing, call, job, store, est, twin, clean>>

\* requests.post(..., timeout=30), raise_for_status(), response.json() and
\* _validate_summary
SummaryRequest ==
    /\ summary.pc = "requesting"
    /\ \E outcome \in SummaryOutcomes :
          LET sent == [summary EXCEPT !.requests = @ + 1]
          IN  summary' = IF outcome.kind = "ok"
                         THEN [sent EXCEPT !.pc = "done",
                                           !.result = ValidateSummary(outcome.content,
                                                                      summary.max_words)]
                         ELSE SummaryFailed(sent, prompts).summary
    /\ UNCHANGED <<split, fmt, prompts, backing, call, job, store, est, twin, clean>>

SummaryInit ==
    /\ split = SplitIdle
    /\ fmt = FmtIdle
    /\ store = StoreIdle
    /\ est = EstIdle
    /\ twin = TwinIdle
    /\ call = NoCall
    /\ job = JobIdle
    /\ backing \in SummaryBackings
    /\ prompts = NewDocumentProcessorPrompts(backing)
    /\ summary \in {NewSummary(op, t, n) :
                       op \in {"extract_summary", "generate_heading"},
                       t \in SummaryTexts, n \in 0..MaxWords}
    /\ clean = CleanIdle

SummaryNext == ExtractSummary \/ SummaryRequest

SpecSummary == SummaryInit /\ [][SummaryNext]_vars

(***************************************************************************)
(* BatchCoordinator: batch_translate and translate_large_document          *)
(***************************************************************************)
ItemTexts == {<<"a">>, <<"b">>, <<" ">>}

DocTexts ==
    {<<"a">>, <<" ">>, <<"a", "\n", "\n", "b">>, <<"a", "b", "\n", "\n">>,
     <<" ", "\n", "\n", "a", "b">>, <<"a", "\n", "\n", "b", "\n", "\n", "a">>}

ChunkSizes == {1, 5}

\* What is known of a finished translate_text call: the text it was given,
\* whether it ended in a failure (template error or failed fallback), and
\* what it returned
CallRecord(c) ==
    [text |-> c.text, failed |-> (c.exc = "TemplateError" \/ c.fallback_failed),
     value |-> c.result]

AfterItemStopOnFailure(i, total, failed) ==
    IF failed THEN "finished" ELSE IF i < total THEN "pacing" ELSE "finished"

\* The end of one loop iteration: `if i < total_texts: time.sleep(1)`
AfterItem(i, total, failed) == IF i < total THEN "pacing" ELSE "finished"

\* batch_translate up to the first translate_text call
BatchStart ==
    /\ job.kind = "batch"
    /\ job.pc = "start"
    /\ IF job.texts = <<>>
       THEN /\ job' = [job EXCEPT !.pc = "finished"]
            /\ UNCHANGED call
       ELSE /\ job' = [job EXCEPT !.pc = "calling", !.i = 1]
            /\ call' = NewCall(job.texts[1], job.show_progress)
    /\ UNCHANGED <<split, fmt, prompts, backing, store, est, twin, summary, clean>>

BatchCollectBeforeReturn ==
    /\ job.kind = "batch"
    /\ job.pc = "calling"
    /\ call.pc \in {"fallback", "done"}
    /\ job' = [job EXCEPT !.results = Append(@, call.result),
                          !.calls = Append(@, CallRecord(call)),
                          !.pc = AfterItem(job.i, Len(job.texts), CallRecord(call).failed)]
    /\ call' = NoCall
    /\ UNCHANGED <<split, fmt, prompts, backing, store, est, twin, summary, clean>>

\* translate_text has returned: results.append(result)
BatchCollect ==
    /\ job.kind = "batch"
    /\ job.pc = "calling"
    /\ call.pc = "done"
    /\ job' = [job EXCEPT !.results = Append(@, call.result),
                          !.calls = Append(@, CallRecord(call)),
                          !.pc = AfterItem(job.i, Len(job.texts), CallRecord(call).failed)]
    /\ call' = NoCall
    /\ UNCHANGED <<split, fmt, prompts, backing, store, est, twin, summary, clean>>

BatchPaceWithoutDelay ==
    /\ job.kind = "batch"
    /\ job.pc = "pacing"
    /\ job' = [job EXCEPT !.pc = "calling", !.i = @ + 1]
    /\ call' = NewCall(job.texts[job.i + 1], job.show_progress)
    /\ UNCHANGED <<split, fmt, prompts, backing, store, est, twin, summary, clean>>

\* time.sleep(1), then the next iteration calls translate_text
BatchPace ==
    /\ job.kind = "batch"
    /\ job.pc = "pacing"
    /\ job' = [job EXCEPT !.pc = "calling", !.i = @ + 1, !.sleeps = @ + 1]
    /\ call' = NewCall(job.texts[job.i + 1], job.show_progress)
    /\ UNCHANGED <<split, fmt, prompts, backing, store, est, twin, summary, clean>>

JoinResultsUnseparated(translated_chunks) == JoinWith(translated_chunks, <<>>)

\* "\n\n".join(translated_chunks)
JoinResults(translated_chunks) == JoinWith(translated_chunks, ParagraphSep)

\* translate_large_document up to the first translate_text call
LargeStart ==
    /\ job.kind = "large"
    /\ job.pc = "start"
    /\ LET chunks == SplitTextByParagraphs(job.doc, job.chunk_size)
       IN  IF Strip(job.doc) = <<>>
           THEN /\ job' = [job EXCEPT !.pc = "finished", !.result = <<>>]
                /\ UNCHANGED call
           ELSE IF Len(chunks) = 1
           THEN /\ job' = [job EXCEPT !.pc = "calling_whole", !.texts = chunks]
                /\ call' = NewCall(job.doc, job.show_progress)
           ELSE IF chunks = <<>>
           THEN /\ job' = [job EXCEPT !.pc = "finished", !.result = JoinResults(<<>>)]
                /\ UNCHANGED call
           ELSE /\ job' = [job EXCEPT !.pc = "calling", !.texts = chunks, !.i = 1]
                /\ call' = NewCall(chunks[1], job.show_progress)
    /\ UNCHANGED <<split, fmt, prompts, backing, store, est, twin, summary, clean>>

\* `return self.translate_text(text, "auto", target_lang)` of the one-chunk case
LargeReturnWhole ==
    /\ job.kind = "large"
    /\ job.pc = "calling_whole"
    /\ call.pc = "done"
    /\ job' = [job EXCEPT !.pc = "finished", !.result = call.result,
                          !.calls = Append(@, CallRecord(call))]
    /\ call' = NoCall
    /\ UNCHANGED <<split, fmt, prompts, backing, store, est, twin, summary, clean>>

\* translate_text has returned for a chunk: translated_chunks.append, and
\* the join after the last chunk
LargeCollect ==
    /\ job.kind = "large"
    /\ job.pc = "calling"
    /\ call.pc = "done"
    /\ LET translated_chunks == Append(job.results, call.result)
           next == AfterItem(job.i, Len(job.texts), CallRecord(call).failed)
       IN  job' = [job EXCEPT !.results = translated_chunks,
                              !.calls = Append(@, CallRecord(call)),
                              !.pc = next,
                              !.result = IF next = "finished"
                                         THEN JoinResults(translated_chunks) ELSE @]
    /\ call' = NoCall
    /\ UNCHANGED <<split, fmt, prompts, backing, store, est, twin, summary, clean>>

\* time.sleep(1) between two chunks
LargePace ==
    /\ job.kind = "large"
    /\ job.pc = "pacing"
    /\ job' = [job EXCEPT !.pc = "calling", !.i = @ + 1, !.sleeps = @ + 1]
    /\ call' = NewCall(job.texts[job.i + 1], job.show_progress)
    /\ UNCHANGED <<split, fmt, prompts, backing, store, est, twin, summary, clean>>

BatchInit ==
    /\ split = SplitIdle
    /\ fmt = FmtIdle
    /\ store = StoreIdle
    /\ est = EstIdle
    /\ summary = SummaryIdle
    /\ clean = CleanIdle
    /\ twin = TwinIdle
    /\ backing \in EngineBackings
    /\ prompts = NewDocumentProcessorPrompts(backing)
    /\ call = NoCall
    /\ job \in {NewJob("batch", sp, ts, <<>>, 1) :
                   sp \in BOOLEAN, ts \in SeqsUpTo(ItemTexts, MaxBatch)}

BatchNext == BatchStart \/ BatchCollect \/ BatchPace \/ EngineNext

SpecBatch == BatchInit /\ [][BatchNext]_vars

LargeInit ==
    /\ split = SplitIdle
    /\ fmt = FmtIdle
    /\ store = StoreIdle
    /\ est = EstIdle
    /\ summary = SummaryIdle
    /\ clean = CleanIdle
    /\ twin = TwinIdle
    /\ backing \in EngineBackings
    /\ prompts = NewDocumentProcessorPrompts(backing)
    /\ call = NoCall
    /\ job \in {NewJob("large", sp, <<>>, d, n) :
                   sp \in BOOLEAN, d \in DocTexts, n \in ChunkSizes}

LargeNext == LargeStart \/ LargeReturnWhole \/ LargeCollect \/ LargePace \/ EngineNext

SpecLarge == LargeInit /\ [][LargeNext]_vars

\* Either driver, started on any of its inputs
DriverInit == BatchInit \/ LargeInit

DriverNext ==
    \/ BatchStart
    \/ BatchCollect
    \/ BatchPace
    \/ LargeStart
    \/ LargeReturnWhole
    \/ LargeCollect
    \/ LargePace
    \/ EngineNext

SpecDriver == DriverInit /\ [][DriverNext]_vars

EstInit ==
    /\ est \in {[EstIdle EXCEPT !.pc = "ready", !.text = t] : t \in EstTexts}
    /\ summary = SummaryIdle
    /\ clean = CleanIdle
    /\ twin = TwinIdle
    /\ split = SplitIdle
    /\ fmt = FmtIdle
    /\ prompts = EmptyStore
    /\ backing = BackingGood
    /\ call = NoCall
    /\ job = JobIdle
    /\ store = StoreIdle

EstCall ==
    /\ est.pc = "ready"
    /\ est' = [est EXCEPT !.pc = "done",
                          !.ratio = IF Strip(est.text) = <<>> THEN @
                                    ELSE AdjustRatioByTextFeatures(est.text, Dbl05),
                          !.result = EstimateTranslatedLength(est.text)]
    /\ UNCHANGED <<split, fmt, prompts, backing, call, job, store, twin, summary, clean>>

EstNext == EstCall

SpecEstimate == EstInit /\ [][EstNext]_vars

StoreInit ==
    /\ backing \in [StoreNames -> StoreEntries]
    /\ \E lazy \in BOOLEAN :
          /\ store = [StoreIdle EXCEPT !.enable_lazy_load = lazy, !.before_backing = backing]
          /\ prompts = NewPromptsManager(backing, lazy)
    /\ split = SplitIdle
    /\ fmt = FmtIdle
    /\ call = NoCall
    /\ job = JobIdle
    /\ est = EstIdle
    /\ summary = SummaryIdle
    /\ clean = CleanIdle
    /\ twin = TwinIdle

\* get_template(template_name)
StoreGet ==
    /\ store.ops < MaxOps
    /\ \E name \in StoreNames :
          LET r == GetTemplate(prompts, backing, name, store.enable_lazy_load)
          IN  /\ prompts' = r.prompts
              /\ store' = AfterOp(StoreOp("get", name, NoParams, <<>>, FALSE),
                                  prompts, backing, r.exc, r.value, FALSE)
    /\ UNCHANGED <<split, fmt, backing, call, job, est, twin, summary, clean>>

\* get_template_with_params(template_name, **params)
StoreGetWithParams ==
    /\ store.ops < MaxOps
    /\ \E name \in StoreNames, params \in StoreParamMaps :
          LET r == GetTemplateWithParams(prompts, backing, name, params,
                                         store.enable_lazy_load)
          IN  /\ prompts' = r.prompts
              /\ store' = AfterOp(StoreOp("get_with_params", name, params, <<>>, FALSE),
                                  prompts, backing, r.exc, r.value, FALSE)
    /\ UNCHANGED <<split, fmt, backing, call, job, est, twin, summary, clean>>

\* reload_templates(template_name)
StoreReload ==
    /\ store.ops < MaxOps
    /\ \E name \in StoreNames :
          /\ prompts' = ReloadTemplate(prompts, backing, name)
          /\ store' = AfterOp(StoreOp("reload", name, NoParams, <<>>, FALSE),
                              prompts, backing, "none", <<>>, FALSE)
    /\ UNCHANGED <<split, fmt, backing, call, job, est, twin, summary, clean>>

\* reload_templates()
StoreReloadAll ==
    /\ store.ops < MaxOps
    /\ prompts' = ReloadAllTemplates(prompts, backing, store.enable_lazy_load)
    /\ store' = AfterOp(StoreOp("reload_all", "none", NoParams, <<>>, FALSE),
                        prompts, backing, "none", <<>>, FALSE)
    /\ UNCHANGED <<split, fmt, backing, call, job, est, twin, summary, clean>>

\* create_template(template_name, content, metadata)
StoreCreate ==
    /\ store.ops < MaxOps
    /\ \E name \in StoreNames, content \in StoreContents, metadata \in BOOLEAN :
          LET r == CreateTemplate(prompts, backing, name, content, metadata,
                                  store.enable_lazy_load)
          IN  /\ prompts' = r.prompts
              /\ backing' = r.backing
              /\ store' = AfterOp(StoreOp("create", name, NoParams, content, metadata),
                                  prompts, backing, "none", <<>>, r.value)
    /\ UNCHANGED <<split, fmt, call, job, est, twin, summary, clean>>

StoreNext ==
    \/ StoreGet
    \/ StoreGetWithParams
    \/ StoreReload
    \/ StoreReloadAll
    \/ StoreCreate

SpecStore == StoreInit /\ [][StoreNext]_vars

SplitInit ==
    /\ split \in {[pc |-> "ready", text |-> t, max_chunk_size |-> n, chunks |-> <<>>] :
                     t \in SeqsUpTo(TextAlphabet, MaxTextLen), n \in 1..MaxChunkSize}
    /\ fmt = FmtIdle
    /\ EngineIdle

SplitCall ==
    /\ split.pc = "ready"
    /\ split' = [split EXCEPT !.pc = "done",
                              !.chunks = SplitTextByParagraphs(split.text, split.max_chunk_size)]
    /\ UNCHANGED <<fmt, prompts, backing, call, job, store, est, twin, summary, clean>>

SplitNext == SplitCall

SpecSplit == SplitInit /\ [][SplitNext]_vars

FmtInit ==
    /\ fmt \in {[pc |-> "ready", template |-> t, params |-> p, result |-> FormatOk(<<>>)] :
                   t \in SeqsUpTo(TemplateAlphabet, MaxTemplateLen), p \in ParamMaps}
    /\ split = SplitIdle
    /\ EngineIdle

FmtCall ==
    /\ fmt.pc = "ready"
    /\ fmt' = [fmt EXCEPT !.pc = "done",
                          !.result = FormatWithParams(fmt.template, fmt.params)]
    /\ UNCHANGED <<split, prompts, backing, call, job, store, est, twin, summary, clean>>

FmtNext == FmtCall

SpecFormat == FmtInit /\ [][FmtNext]_vars

\* _clean_translation_result applied to every result string up to
\* MaxResultLen over the characters its patterns distinguish
ResultAlphabet == {"fan", "yi", "yi3", "xia", "shi", "wen", "fullcolon", ":", " ", "x"}

CleanInit ==
    /\ split = SplitIdle
    /\ fmt = FmtIdle
    /\ prompts = EmptyStore
    /\ backing = BackingGood
    /\ call = NoCall
    /\ job = JobIdle
    /\ store = StoreIdle
    /\ est = EstIdle
    /\ summary = SummaryIdle
    /\ twin = TwinIdle
    /\ \E n \in 0..MaxResultLen : \E t \in [1..n -> ResultAlphabet] :
           clean = [CleanIdle EXCEPT !.pc = "ready", !.text = t]

CleanCall ==
    /\ clean.pc = "ready"
    /\ clean' = [clean EXCEPT !.pc = "done", !.result = CleanTranslationResult(clean.text)]
    /\ UNCHANGED <<split, fmt, prompts, backing, call, job, store, est, twin, summary>>

CleanNext == CleanCall

SpecClean == CleanInit /\ [][CleanNext]_vars

NonEmptyOnly(ss) == SelectSeq(ss, LAMBDA p : p # <<>>)

\* C1: every chunk returned by split(text, N) has length <= N unless the
\* chunk is one single paragraph that is itself longer than N.
C1_ChunkWithinBound ==
    split.pc = "done" =>
        \A i \in 1..Len(split.chunks) :
            \/ Len(split.chunks[i]) <= split.max_chunk_size
            \/ Len(ReSplitParagraphs(split.chunks[i])) = 1

\* C2 (as stated): joining the chunks with a blank line and splitting again
\* on blank lines yields exactly the paragraph sequence of the original text.
C2_RoundTripAllParagraphs ==
    split.pc = "done" =>
        ReSplitParagraphs(JoinWith(split.chunks, ParagraphSep)) = ReSplitParagraphs(split.text)

\* C2 (amended): the round trip yields exactly the non-empty paragraphs of
\* the original text, in order; only empty paragraphs (a blank-line separator
\* at the very start or end of the text) may be lost.
C2_RoundTripNonEmptyParagraphs ==
    split.pc = "done" =>
        NonEmptyOnly(ReSplitParagraphs(JoinWith(split.chunks, ParagraphSep)))
            = NonEmptyOnly(ReSplitParagraphs(split.text))

\* A split into several chunks of a text that also has an empty paragraph
C2_Witness ==
    /\ split.pc = "done"
    /\ Len(split.chunks) >= 2
    /\ \E i \in 1..Len(ReSplitParagraphs(split.text)) : ReSplitParagraphs(split.text)[i] = <<>>

IsTerminator(line) == line.kind \in {"done", "finish"}

\* The lines that arrive before the first terminator
BeforeTerminator(stream) ==
    LET ts == {i \in 1..Len(stream) : IsTerminator(stream[i])}
    IN  IF ts = {} THEN stream
        ELSE SubSeq(stream, 1, (CHOOSE i \in ts : \A j \in ts : i <= j) - 1)

RECURSIVE ConcatFragments(_)
ConcatFragments(lines) ==
    IF lines = <<>> THEN <<>>
    ELSE (IF Head(lines).kind = "content" THEN Head(lines).content ELSE <<>>)
             \o ConcatFragments(Tail(lines))

\* The fragments of the well-formed data frames before the first terminator
ExpectedAccumulation(stream) == ConcatFragments(BeforeTerminator(stream))

DecodeExceptions == {"TypeError", "AttributeError"}

IsUndecodable(line) == line.kind \in {"invalid_json", "payload_not_object", "choice_not_object"}

FallbackRequests(c) == Cardinality({i \in 1..Len(c.requests) : ~c.requests[i].stream})

\* C3: the accumulated text is the concatenation, in arrival order, of the
\* fragments of the well-formed data frames that arrive before the first
\* terminator, for every sequence of lines the server sends, and the running
\* character count is the length of the accumulated text after every frame.
C3_AccumulatesFragmentsBeforeTerminator ==
    /\ call.pc = "streaming" =>
          /\ JoinParts(call.translated_parts)
                = ExpectedAccumulation(SubSeq(call.stream, 1, call.pos))
          /\ call.received_chars = Len(JoinParts(call.translated_parts))
    /\ (call.loop_ended \/ call.exc \in DecodeExceptions) =>
          /\ JoinParts(call.translated_parts) = ExpectedAccumulation(call.stream)
          /\ call.received_chars = Len(JoinParts(call.translated_parts))

\* C4: a data frame that cannot be decoded into the expected structure is
\* skipped: it never ends the stream with an exception (so never sends the
\* call to the fallback), and the fragments around it are kept.
C4_UndecodableFrameSkipped ==
    \A k \in 1..call.pos :
        IsUndecodable(call.stream[k]) =>
            /\ call.exc \notin DecodeExceptions
            /\ call.loop_ended =>
                  JoinParts(call.translated_parts) = ExpectedAccumulation(call.stream)

\* C5: when the stream completes and the accumulated result is empty after
\* cleaning, the fallback is invoked with the same prompt and system prompt;
\* the streaming path never returns an empty cleaned result.
C5_EmptyCleanedResultFallsBack ==
    /\ (call.loop_ended /\ CleanTranslationResult(JoinParts(call.translated_parts)) = <<>>) =>
          /\ call.pc \in {"empty", "fallback", "done"}
          /\ call.pc = "done" =>
                /\ call.fallback_calls = 1
                /\ Len(call.requests) = 2
                /\ call.requests[2] = [call.requests[1] EXCEPT !.stream = FALSE]
    /\ call.pc = "completed" => call.result # <<>>

\* C6: in one translate call the fallback request is issued at most once,
\* and exactly once when the stream completes with only whitespace content.
C6_FallbackAtMostOnce ==
    /\ call.fallback_calls <= 1
    /\ FallbackRequests(call) <= 1
    /\ (call.pc = "done" /\ call.loop_ended /\ Strip(JoinParts(call.translated_parts)) = <<>>) =>
          /\ call.fallback_calls = 1
          /\ FallbackRequests(call) = 1

\* A finished call whose stream delivered whitespace fragments only
C6_Witness ==
    /\ call.pc = "done"
    /\ call.loop_ended
    /\ call.translated_parts # <<>>
    /\ Strip(JoinParts(call.translated_parts)) = <<>>
    /\ FallbackRequests(call) = 1

\* C7: a transport failure of the streaming call, before the first frame or
\* in the middle of the stream, leads to the fallback; when the fallback
\* fails too the call returns the failure marker followed by the input text.
C7_TransportFailureFallsBack ==
    /\ (call.exc \in TransportFailures /\ call.pc \notin {"error"}) =>
          /\ call.pc \in {"fallback", "done"}
          /\ call.fallback_calls = 1
          /\ call.pc = "done" =>
                /\ FallbackRequests(call) = 1
                /\ call.requests[Len(call.requests)]
                      = Request(FALSE, call.system_prompt, call.prompt)
                /\ call.fallback_failed => call.result = FailureMarker(call.text)
    /\ (call.exc \in TransportFailures /\ call.pc = "error") => call.fallback_calls = 0

\* A call whose stream broke after some fragments and whose fallback failed
C7_Witness ==
    /\ call.pc = "done"
    /\ call.exc \in ReadFailures
    /\ call.translated_parts # <<>>
    /\ call.fallback_failed
    /\ call.result = FailureMarker(call.text)

\* The outcome of a translate_text call for the text it was given
OutcomeOf(rec, text) == IF rec.failed THEN FailureMarker(text) ELSE rec.value

\* C8: batch returns a list as long as its input, position i holding the
\* outcome for input i (the translation, or the failure marker with text i
\* when the item failed), and a failed item does not stop the later ones.
C8_BatchSameLengthSameOrder ==
    (job.kind = "batch" /\ job.pc = "finished") =>
        /\ Len(job.results) = Len(job.texts)
        /\ Len(job.calls) = Len(job.texts)
        /\ \A i \in 1..Len(job.texts) :
              /\ job.calls[i].text = job.texts[i]
              /\ job.results[i] = OutcomeOf(job.calls[i], job.texts[i])

\* A finished batch whose first item failed and whose second item succeeded
C8_Witness ==
    /\ job.kind = "batch"
    /\ job.pc = "finished"
    /\ Len(job.texts) = 2
    /\ job.calls[1].failed
    /\ ~job.calls[2].failed
    /\ job.results[1] = FailureMarker(job.texts[1])
    /\ job.results[2] = <<"H", "e">>

\* What C9 states of a finished translateLargeDocument
LargeDocumentOutcome ==
    LET chunks == SplitTextByParagraphs(job.doc, job.chunk_size)
    IN  IF Len(chunks) = 1
        THEN /\ Len(job.calls) = 1
             /\ job.result = OutcomeOf(job.calls[1], job.calls[1].text)
        ELSE /\ Len(job.calls) = Len(chunks)
             /\ \A i \in 1..Len(chunks) : job.calls[i].text = chunks[i]
             /\ job.result = JoinWith([i \in 1..Len(chunks) |->
                                          OutcomeOf(job.calls[i], chunks[i])],
                                      ParagraphSep)

\* C9 (as stated): translateLargeDocument makes exactly one translation call
\* when the split yields one chunk and returns its result; otherwise it makes
\* one call per chunk, in chunk order, and returns the per-chunk outcomes
\* joined by a blank line, a failed chunk being its failure marker.
C9_LargeDocumentOneCallPerChunk ==
    (job.kind = "large" /\ job.pc = "finished") => LargeDocumentOutcome

\* C9 (amended): the same for every text that is not blank; a blank text
\* (empty or whitespace only) is returned as the empty string with no
\* translation call at all.
C9_LargeDocumentOneCallPerChunkUnlessBlank ==
    (job.kind = "large" /\ job.pc = "finished") =>
        IF Strip(job.doc) = <<>>
        THEN job.calls = <<>> /\ job.result = <<>>
        ELSE LargeDocumentOutcome

\* A document of three chunks whose second chunk failed
C9_Witness ==
    /\ job.kind = "large"
    /\ job.pc = "finished"
    /\ Len(job.calls) = 3
    /\ ~job.calls[1].failed
    /\ job.calls[2].failed
    /\ ~job.calls[3].failed
    /\ job.calls[3].value # <<>>

ScannedParams(template) ==
    {ExtractTemplateParams(template)[i] : i \in 1..Len(ExtractTemplateParams(template))}

PlaceholderToken(name) == <<"{">> \o name \o <<"}">>

\* C10: when every {identifier} placeholder found by scanning the template
\* has a key in paramMap, getWithParams does not fail and its result holds
\* no literal {key} token of a matched key.
C10_FormatTotalOnMatchedParams ==
    (fmt.pc = "done" /\ ScannedParams(fmt.template) \subseteq DOMAIN fmt.params) =>
        /\ fmt.result.ok
        /\ \A k \in ScannedParams(fmt.template) :
               ~Contains(fmt.result.out, PlaceholderToken(k))

\* C11: for a template containing a placeholder {x} and a paramMap without
\* key x, getWithParams fails with the MissingParameter error (whose message
\* lists the scanned placeholders, x among them) and returns no text.
C11_MissingParameterReported ==
    fmt.pc = "done" =>
        \A x \in ScannedParams(fmt.template) :
            x \notin DOMAIN fmt.params =>
                /\ ~fmt.result.ok
                /\ fmt.result.err = "MissingParameter"
                /\ fmt.result.out = <<>>

Resident(p) == DOMAIN p.templates

WellFormed(e) == e.exists /\ e.readable /\ e.meta # "malformed"

\* C12: in lazy mode, get(name) on a name that is not yet resident and has a
\* well-formed backing entry loads it, makes it resident and returns its
\* text; on a name with no backing entry it fails with NotFound; on a name
\* whose backing entry is malformed it fails with LoadError.
C12_LazyGetLoadsOrFails ==
    (store.enable_lazy_load /\ store.last.op = "get") =>
        LET n == store.last.name
            e == backing[n]
        IN  /\ (n \notin Resident(store.before) /\ WellFormed(e)) =>
                   /\ store.exc = "none"
                   /\ n \in Resident(prompts)
                   /\ prompts.templates[n] = Strip(e.content)
                   /\ store.value = prompts.templates[n]
            /\ ~e.exists => store.exc = "FileNotFoundError"
            /\ (e.exists /\ ~WellFormed(e)) => store.exc = "ValueError"

\* C13: in every reachable state of the store, every name in the loaded set
\* has an entry in the template map.
C13_LoadedHaveTemplates == prompts.loaded_templates \subseteq Resident(prompts)

\* A get has just failed on a store that holds loaded templates and has
\* been reloaded or written to
C13_Witness ==
    /\ store.last.op = "get"
    /\ store.exc = "ValueError"
    /\ store.prev.op \in {"reload", "reload_all", "create"}
    /\ prompts.loaded_templates # {}

\* C14: each name's usage count is non-negative and never decreases; it
\* rises by exactly one on every successful get(name) and is left unchanged
\* by a get that fails, by reload (of one name or of all) and by create.
C14_UsageCountsMonotonic ==
    \A n \in StoreNames :
        /\ UsageOf(prompts, n) >= 0
        /\ UsageOf(prompts, n) >= UsageOf(store.before, n)
        /\ (store.last.op = "get" /\ store.last.name = n /\ store.exc = "none") =>
               UsageOf(prompts, n) = UsageOf(store.before, n) + 1
        /\ (store.last.op = "get" /\ store.exc # "none") =>
               UsageOf(prompts, n) = UsageOf(store.before, n)
        /\ store.last.op \in {"reload", "reload_all", "create"} =>
               UsageOf(prompts, n) = UsageOf(store.before, n)

\* The second successful get of a name, a reload of everything in between
C14_Witness ==
    /\ store.last.op = "get"
    /\ store.exc = "none"
    /\ store.prev.op = "reload_all"
    /\ UsageOf(prompts, store.last.name) = 2

\* C15: with an unchanged backing store, the second of two reload(name) in
\* a row leaves the store as the first left it: same content and metadata
\* held for name.
C15_ReloadTwiceSameAsOnce ==
    (store.last.op = "reload" /\ store.prev = store.last) =>
        /\ backing = store.before_backing
        /\ prompts = store.before

\* Two reloads in a row of a name that the first reload brought in, with
\* its metadata
C15_Witness ==
    /\ store.last.op = "reload"
    /\ store.prev = store.last
    /\ store.last.name \notin Resident(store.before_prev)
    /\ store.last.name \in Resident(prompts)
    /\ store.last.name \in DOMAIN prompts.template_metadata

\* The names reload() is to reload: the resident ones in lazy mode, the
\* available ones in eager mode
ToBeReloaded ==
    IF store.enable_lazy_load
    THEN Resident(store.before)
    ELSE ListAvailableTemplates(backing)

\* C16: after reload() of all templates, every name that was to be reloaded
\* and whose backing entry is well-formed is resident with the backing
\* store's current content, and a name whose reload failed is not left
\* resident with its old content.
C16_ReloadAllIsolatesFailures ==
    store.last.op = "reload_all" =>
        \A n \in ToBeReloaded :
            /\ WellFormed(backing[n]) =>
                   /\ n \in Resident(prompts)
                   /\ prompts.templates[n] = backing[n].content
            /\ ~WellFormed(backing[n]) =>
                   ~ /\ n \in Resident(prompts)
                     /\ n \in Resident(store.before)
                     /\ prompts.templates[n] = store.before.templates[n]

\* C17 as stated: create writes the backing entry, a second identical create
\* changes neither the backing store nor the store, and in eager mode the
\* template is resident with the content given to create.
C17_CreateIdempotentResidentAsGiven ==
    store.last.op = "create" =>
        LET n == store.last.name
        IN  /\ backing[n].exists /\ backing[n].readable
            /\ backing[n].content = store.last.content
            /\ store.prev = store.last =>
                   (backing = store.before_backing /\ prompts = store.before)
            /\ ~store.enable_lazy_load =>
                   (n \in Resident(prompts) /\ prompts.templates[n] = store.last.content)

\* C17, amended: as above, the resident content being the content given to
\* create trimmed of its surrounding whitespace.
C17_CreateIdempotentResidentTrimmed ==
    store.last.op = "create" =>
        LET n == store.last.name
        IN  /\ backing[n].exists /\ backing[n].readable
            /\ backing[n].content = store.last.content
            /\ store.prev = store.last =>
                   (backing = store.before_backing /\ prompts = store.before)
            /\ ~store.enable_lazy_load =>
                   (n \in Resident(prompts) /\ prompts.templates[n] = Strip(store.last.content))

\* The same entry created twice in a row in eager mode, over an entry with
\* other content, the content carrying surrounding whitespace
C17_Witness ==
    /\ store.last.op = "create"
    /\ store.prev = store.last
    /\ ~store.enable_lazy_load
    /\ store.last.metadata
    /\ Strip(store.last.content) # store.last.content
    /\ store.last.name \in Resident(store.before_prev)
    /\ store.before_prev.templates[store.last.name] # prompts.templates[store.last.name]

\* C18: eager construction leaves resident exactly the available templates
\* whose backing entries load successfully, a malformed entry not becoming
\* resident; lazy construction leaves none resident; on a resident name get
\* and getWithParams return the same results in both modes.
C18_ConstructionModes ==
    /\ store.ops = 0 =>
           Resident(prompts) = IF store.enable_lazy_load THEN {}
                               ELSE {n \in StoreNames : WellFormed(backing[n])}
    /\ \A n \in Resident(prompts) :
           /\ GetTemplate(prompts, backing, n, TRUE) = GetTemplate(prompts, backing, n, FALSE)
           /\ \A params \in StoreParamMaps :
                  GetTemplateWithParams(prompts, backing, n, params, TRUE)
                      = GetTemplateWithParams(prompts, backing, n, params, FALSE)

\* The decimal ratio a double stands for, in tenths
RatioTenths(r) ==
    CASE r = Dbl03 -> 3
      [] r = Dbl04 -> 4
      [] r = Dbl05 -> 5
      [] r \in {Dbl06, Dbl06u} -> 6
      [] r = Dbl07 -> 7
      [] r = Dbl08 -> 8

\* C19: the estimate of the empty text is 0; for every non-empty text the
\* ratio used lies in [0.3, 0.8] and the estimate is
\* max(100, floor(length x ratio)), so never below 100.
C19_EstimateFloorOfRatio ==
    est.pc = "done" =>
        /\ est.text = <<>> => est.result = 0
        /\ est.text # <<>> =>
               /\ ~DoubleLess(est.ratio, Dbl03)
               /\ ~DoubleLess(Dbl08, est.ratio)
               /\ est.result = MaxOf({100, (Len(est.text) * RatioTenths(est.ratio)) \div 10})
               /\ est.result >= 100

\* Whether translate_text(text) fails to prepare its two prompts on store p
TemplatePreparationFails(p, bk, text) ==
    LET r1 == GetTemplateWithParams(p, bk, "translation_prompt", (TextParam :> text), TRUE)
        r2 == GetTemplate(r1.prompts, bk, "translation_system_prompt", TRUE)
    IN  r1.exc # "none" \/ r2.exc # "none"

\* C20: when resolving or rendering the translation templates fails
\* (template not found, load error, missing parameter), translate returns
\* the failure marker containing the input text and issues no request,
\* neither streaming nor fallback.
C20_TemplateFailureReturnsMarker ==
    (/\ job.kind = "single"
     /\ call.pc # "idle"
     /\ Strip(call.text) # <<>>
     /\ TemplatePreparationFails(NewDocumentProcessorPrompts(backing), backing, call.text)) =>
        /\ call.pc = "done"
        /\ call.result = FailureMarker(call.text)
        /\ call.requests = <<>>
        /\ call.fallback_calls = 0

\* translate has returned the marker because the prompt template names a
\* parameter that translate does not pass
C20_Witness ==
    /\ job.kind = "single"
    /\ call.pc = "done"
    /\ backing = BackingExtraParam
    /\ call.result = FailureMarker(call.text)
    /\ call.requests = <<>>

\* The place of a call state in Idle -> Requesting -> Streaming ->
\* {Completed, EmptyResult, Error} -> Fallback -> Done
PcRank(pc) ==
    CASE pc = "idle" -> 0
      [] pc = "requesting" -> 1
      [] pc = "streaming" -> 2
      [] pc \in {"completed", "empty", "error"} -> 3
      [] pc = "fallback" -> 4
      [] pc = "done" -> 5

CallStepInOrder ==
    call'.pc # call.pc =>
        /\ PcRank(call'.pc) > PcRank(call.pc)
        /\ call'.pc = "fallback" => call.pc \in {"empty", "error"}
        /\ call.pc \in {"empty", "error"} => call'.pc = "fallback"
        /\ call.pc = "completed" => call'.pc = "done"

\* C21: every translate call moves through Idle, Requesting, Streaming,
\* {Completed, EmptyResult, Error}, Fallback, Done in this order, enters
\* Fallback only from EmptyResult or Error, and eventually reaches Done.
C21_PerCallStateMachine == [][CallStepInOrder]_vars /\ <>(call.pc = "done")

\* A call that is Done after Streaming, EmptyResult and Fallback
C21_Witness ==
    /\ call.pc = "done"
    /\ call.loop_ended
    /\ call.exc = "none"
    /\ call.fallback_calls = 1


(***************************************************************************)
(* C22                                                                     *)
(***************************************************************************)
\* The text the k-th translate_text call of a driver is to be given
InputText(j, k) ==
    IF j.kind = "large" /\ Len(j.texts) = 1 THEN j.doc ELSE j.texts[k]

\* The calls recorded so far are those of the first inputs, in input order,
\* and the results list holds what they returned
RecordedInInputOrder(j) ==
    /\ Len(j.calls) <= Len(j.texts)
    /\ \A k \in 1..Len(j.calls) : j.calls[k].text = InputText(j, k)
    /\ IF j.kind = "large" /\ Len(j.texts) = 1
       THEN j.results = <<>>
       ELSE /\ Len(j.results) = Len(j.calls)
            /\ \A k \in 1..Len(j.calls) : j.results[k] = j.calls[k].value

DriverStepSequential ==
    /\ job'.calls # job.calls =>
          /\ call.pc = "done"
          /\ job'.calls = Append(job.calls, CallRecord(call))
    /\ (call'.pc = "idle" /\ call.pc # "idle") =>
          /\ call = NoCall
          /\ Len(job'.calls) = Len(job.calls)
          /\ call'.text = InputText(job', Len(job.calls) + 1)
    /\ RecordedInInputOrder(job')

\* C22: in batch and translateLargeDocument the call for item (chunk) i+1
\* starts only after the call for item i, its fallback included, has reached
\* Done and has been recorded, so no two calls are in progress together, and
\* the results are recorded in input order.
C22_CallsSequentialInInputOrder == [][DriverStepSequential]_vars

\* The second call of a batch is in its fallback, the first one recorded
C22_Witness ==
    /\ job.kind = "batch"
    /\ job.pc = "calling"
    /\ job.i = 2
    /\ Len(job.calls) = 1
    /\ call.pc = "fallback"
    /\ call.text = job.texts[2]

(***************************************************************************)
(* C23                                                                     *)
(***************************************************************************)
\* The driver runs its loop over n items: batch for n >= 1, the large
\* document for n >= 2 chunks
LoopsOverItems(j) ==
    \/ j.kind = "batch" /\ Len(j.texts) >= 1
    \/ j.kind = "large" /\ Len(j.texts) >= 2

DriverStepPaced ==
    /\ job'.sleeps # job.sleeps =>
          /\ job'.sleeps = job.sleeps + 1
          /\ call = NoCall
          /\ Len(job.calls) = job.i
          /\ job.i < Len(job.texts)
          /\ call'.pc = "idle"
          /\ job'.i = job.i + 1
    /\ (call'.pc = "idle" /\ call.pc # "idle" /\ job'.i >= 2) =>
          job'.sleeps = job.sleeps + 1
    /\ (LoopsOverItems(job') /\ job'.pc # "start") =>
          job'.sleeps = job'.i - 1
    /\ (LoopsOverItems(job') /\ job'.pc = "finished") =>
          job'.sleeps = Len(job'.texts) - 1

\* C23: batch over n >= 1 items, and translateLargeDocument over n >= 2
\* chunks, sleeps exactly n-1 times: once between the end of the call for
\* item i and the start of the call for item i+1, whether item i succeeded
\* or failed, and never after the last item.
C23_PacingBetweenItemsOnly == [][DriverStepPaced]_vars

\* A finished large document of three chunks, the first of which failed
C23_Witness ==
    /\ job.kind = "large"
    /\ job.pc = "finished"
    /\ Len(job.texts) = 3
    /\ job.calls[1].failed
    /\ ~job.calls[3].failed
    /\ job.sleeps = 2

(***************************************************************************)
(* C24                                                                     *)
(***************************************************************************)
BarStep ==
    LET bar == call.progress_bar
        bar2 == call'.progress_bar
    IN  /\ (call'.pc \notin {"none", "idle"} /\ call'.requests # <<>>) =>
              (bar2.present <=> call'.show_progress)
        /\ bar2.present => bar2.n <= bar2.total
        /\ (~bar.present /\ bar2.present) =>
              /\ bar2.total = EstimateTranslatedLength(call'.text)
              /\ bar2.n = 0
        /\ (bar.present /\ bar2.present) =>
              /\ bar2.total >= bar.total
              /\ bar2.n = call'.received_chars
              /\ bar2.total = IF call'.received_chars > bar.total
                              THEN call'.received_chars + 100
                              ELSE bar.total

\* C24: with progress reporting enabled the progress counter never exceeds
\* the progress bound after a fragment; the bound starts at the estimate of
\* the LengthEstimator, becomes accumulated + 100 whenever the accumulated
\* length exceeds it, and never decreases.
C24_ProgressWithinBound == [][BarStep]_vars

\* Two long fragments were received: the bound was raised twice
C24_Witness ==
    /\ call.progress_bar.present
    /\ Len(call.translated_parts) = 2
    /\ call.received_chars = 2 * MaxFragmentLen
    /\ call.progress_bar.n = call.received_chars
    /\ call.progress_bar.total = call.received_chars + 100
    /\ call.progress_bar.total > EstimateTranslatedLength(call.text) + 100

(***************************************************************************)
(* C25                                                                     *)
(***************************************************************************)
\* C25: for the same text, the same templates and the same API responses
\* and failures, translate with progress reporting enabled issues the same
\* requests, ends when the call without progress reporting ends, and
\* returns the same string.
C25_ProgressIsPureSideEffect ==
    twin.call.pc # "none" =>
        /\ call.show_progress /\ ~twin.call.show_progress
        /\ call.requests = twin.call.requests
        /\ (call.pc = "done") <=> (twin.call.pc = "done")
        /\ call.pc = "done" => call.result = twin.call.result

\* Both calls completed from the stream, and the progress bound was raised
\* on the way
C25_Witness ==
    /\ call.pc = "done"
    /\ twin.call.pc = "done"
    /\ call.fallback_calls = 0
    /\ call.result # <<>>
    /\ call.progress_bar.present
    /\ call.progress_bar.total > EstimateTranslatedLength(call.text)
    /\ ~twin.call.progress_bar.present

(***************************************************************************)
(* C26                                                                     *)
(***************************************************************************)
\* The text before its first sentence terminator
FirstSentence(text) ==
    LET ends == {i \in 1..Len(text) : IsSentenceEnd(text[i])}
    IN  IF ends = {} THEN text
        ELSE SubSeq(text, 1, (CHOOSE i \in ends : \A j \in ends : i <= j) - 1)

\* The number of whitespace-separated words of a string
WordCount(s) ==
    Cardinality({i \in 1..Len(s) : ~IsSpace(s[i]) /\ (i = 1 \/ IsSpace(s[i - 1]))})

\* The first n words of a string, separated by single spaces
FirstWords(s, n) ==
    LET words == SplitWords(s)
    IN  JoinWith([i \in 1..(IF n < Len(words) THEN n ELSE Len(words)) |-> words[i]], <<" ">>)

\* C26: extractSummary and generateHeading never raise; whatever template
\* resolution and the API call come to, the result has at most maxWords
\* whitespace-separated words, and after any failure it is the first
\* maxWords words of the first sentence of the text.
C26_SummaryNeverRaises ==
    /\ ~summary.raised
    /\ summary.pc = "done" =>
          /\ WordCount(summary.result) <= summary.max_words
          /\ summary.failed => summary.result = FirstWords(FirstSentence(summary.text),
                                                          summary.max_words)

\* The request failed for a text whose first sentence has more words than
\* asked for
C26_Witness ==
    /\ summary.pc = "done"
    /\ summary.failed
    /\ summary.requests = 1
    /\ summary.text = <<"a", " ", "b", ".">>
    /\ summary.max_words = 1
    /\ summary.result = <<"a">>

(***************************************************************************)
(* C27                                                                     *)
(***************************************************************************)
\* The text holds a blank-line paragraph separator: two newlines with
\* nothing but whitespace between them
HasParagraphSeparator(text) ==
    \E i, j \in 1..Len(text) :
        /\ i < j
        /\ text[i] = "\n"
        /\ text[j] = "\n"
        /\ \A k \in (i + 1)..(j - 1) : IsSpace(text[k])

\* C27: split never returns an empty chunk, returns the empty sequence for
\* the empty text, and returns a text without a blank-line separator as one
\* chunk equal to the whole text, whatever its length.
C27_SplitNoEmptyChunk ==
    split.pc = "done" =>
        /\ \A i \in 1..Len(split.chunks) : split.chunks[i] # <<>>
        /\ split.text = <<>> => split.chunks = <<>>
        /\ (split.text # <<>> /\ ~HasParagraphSeparator(split.text)) =>
              split.chunks = <<split.text>>

\* A text longer than the chunk size, with a single newline but no blank
\* line, came back as one chunk
C27_Witness ==
    /\ split.pc = "done"
    /\ Len(split.text) > split.max_chunk_size
    /\ \E i \in 1..Len(split.text) : split.text[i] = "\n"
    /\ ~HasParagraphSeparator(split.text)
    /\ split.chunks = <<split.text>>

(***************************************************************************)
(* C28                                                                     *)
(***************************************************************************)
\* C28: after create(name, content) has returned success, the next
\* get(name) returns the newly written content trimmed of its surrounding
\* whitespace, in eager and in lazy mode, whether or not name was resident
\* before the create.
C28_GetAfterCreateReturnsNew ==
    (/\ store.last.op = "get"
     /\ store.prev.op = "create"
     /\ store.prev.name = store.last.name
     /\ store.prev_created) =>
        /\ store.exc = "none"
        /\ store.value = Strip(store.prev.content)

(***************************************************************************)
(* C29                                                                     *)
(***************************************************************************)
\* C29: a get that fails leaves the template map, the metadata map, the
\* loaded set and the usage counts as they were, so that the same get
\* repeated against the same backing store fails again.
C29_FailedGetLeavesStoreUnchanged ==
    /\ (store.last.op = "get" /\ store.exc # "none") => prompts = store.before
    /\ (/\ store.last.op = "get"
        /\ store.prev = store.last
        /\ store.prev_exc # "none"
        /\ backing = store.before_backing) => store.exc # "none"

(***************************************************************************)
(* C30                                                                     *)
(***************************************************************************)
\* A terminator is among the lines read so far
TerminatorReceived(c) == \E i \in 1..c.pos : IsTerminator(c.stream[i])

\* C30: the streaming path returns its accumulated content as a completed
\* translation only if a terminator (the [DONE] sentinel or a frame with a
\* finish_reason) was received; a stream that ends after some fragments
\* without a terminator is not returned as a completed result.
C30_CompletedOnlyAfterTerminator ==
    call.pc = "completed" => TerminatorReceived(call)

(***************************************************************************)
(* C31                                                                     *)
(***************************************************************************)
\* The value a translate call has returned: the streaming path returns in
\* "completed", translate_text itself and the fallback return in "done"
Returned(c) == c.pc \in {"completed", "done"}

\* C31: for every input text that is not blank, translate returns a
\* non-empty string (non-empty translated text or the failure marker); a
\* fallback response whose content is empty after cleaning is not returned
\* as an empty translation.
C31_NonBlankInputNonEmptyResult ==
    (Returned(call) /\ Strip(call.text) # <<>>) => call.result # <<>>

(***************************************************************************)
(* C32                                                                     *)
(***************************************************************************)
\* s begins with one of the filler phrases, with or without its colon
BeginsWithFiller(s) == \E i \in 1..Len(FillerPhrases) : HasPrefix(s, FillerPhrases[i])

\* C32: cleaning is idempotent and complete: for every result string s,
\* clean(clean(s)) = clean(s), and clean(s) has no surrounding whitespace
\* and does not begin with any of the filler phrases of the fixed set.
C32_CleanIdempotentAndComplete ==
    clean.pc = "done" =>
        /\ CleanTranslationResult(clean.result) = clean.result
        /\ Strip(clean.result) = clean.result
        /\ ~BeginsWithFiller(clean.result)

(***************************************************************************)
(* C33                                                                     *)
(***************************************************************************)
\* C33: in every state reachable by any sequence of store operations, the
\* loaded set is exactly the set of names resident in the template map, so
\* the loaded count reported by the usage statistics equals the number of
\* names returned by list_loaded_templates.
C33_LoadedSetIsResidentSet ==
    /\ prompts.loaded_templates = ListLoadedTemplates(prompts)
    /\ GetUsageStatistics(prompts, backing).loaded_templates =
          Cardinality(ListLoadedTemplates(prompts))
====
